---- MODULE Spec2Model ----
(***************************************************************************)
(* A model of fe_crawler.py: the list-marker resolver, the list renderer   *)
(* (process_list), the inline/block converter (process_element) and the    *)
(* page extractor (main).                                                  *)
(*                                                                         *)
(* Text is a sequence of one-character strings.  A glyph outside ASCII and *)
(* a fixed piece of markup that holds no whitespace is one element of the  *)
(* sequence, written as an ASCII name:                                     *)
(*   "U+3000"   the full-width space of indent_unit (whitespace)           *)
(*   "kana-a" .. "kana-ko"   the katakana letters, "kana-comma" the        *)
(*              ideographic comma that follows them                        *)
(*   "circled-1" .. "circled-20"   the circled numbers                     *)
(*   "kanji-mon", "kanji-dai", "kanji-ichi", "kanji-ran", "kanji-kai",     *)
(*   "kanji-tou", "kanji-setsu"   the characters of the heading markers    *)
(*   "<u>", "</u>", "&emsp;"   the underline tags and the em-space entity  *)
(* and so is each fixed piece of the HTML block emitted for an image.      *)
(***************************************************************************)
EXTENDS Integers, Sequences, FiniteSets, TLC

VARIABLES
    call,             \* which entry point this behaviour runs
    pc,               \* position inside the running call
    list_element,     \* process_list: the ul/ol being rendered
    indent_level,     \* process_list: its indent_level argument
    li_index,         \* process_list: number of direct items already processed
    current_number,   \* process_list: the running counter
    md_lines,         \* process_list: the lines emitted so far
    element,          \* process_element: the element being converted
    failing,          \* the image sources whose download fails
    prefix,           \* the file-name prefix handed to download_image
    child_index,      \* process_element: number of children already processed
    md_text,          \* process_element: the text accumulated so far
    result,           \* the value returned by the call (None before it returns)
    fetch,            \* main: outcome of the page fetch
    dir_state,        \* main: the output directory
    container,        \* main: div.main.kako, found with its children or absent
    elem_index,       \* main: number of top-level elements already visited
    markdown_content, \* main: the Markdown accumulated so far
    file,             \* main: content of the output file, None when absent
    printed           \* main: the messages printed so far

vars == <<call, pc, list_element, indent_level, li_index, current_number,
          md_lines, element, failing, prefix, child_index, md_text, result, fetch,
          dir_state, container, elem_index, markdown_content, file, printed>>

----------------------------------------------------------------------------
(* Characters and strings *)

None == <<"None">>

NL == "\n"

IndentUnit == "U+3000"

Digits == <<"0", "1", "2", "3", "4", "5", "6", "7", "8", "9">>

IsDigit(c) == \E i \in 1..10 : Digits[i] = c

DigitVal(c) == (CHOOSE i \in 1..10 : Digits[i] = c) - 1

IsSpace(c) == c \in {" ", "\t", NL, IndentUnit}

RECURSIVE LStrip(_)
LStrip(s) ==
    IF s = <<>> THEN <<>>
    ELSE IF IsSpace(Head(s)) THEN LStrip(Tail(s)) ELSE s

RECURSIVE RStrip(_)
RStrip(s) ==
    IF s = <<>> THEN <<>>
    ELSE IF IsSpace(s[Len(s)]) THEN RStrip(SubSeq(s, 1, Len(s) - 1)) ELSE s

Strip(s) == RStrip(LStrip(s))

AllDigits(s) == s # <<>> /\ \A i \in 1..Len(s) : IsDigit(s[i])

RECURSIVE DigitsValue(_)
DigitsValue(s) ==
    IF s = <<>> THEN 0
    ELSE 10 * DigitsValue(SubSeq(s, 1, Len(s) - 1)) + DigitVal(s[Len(s)])

(* int(x): a record [ok, v]; ok is FALSE where Python raises TypeError   *)
(* (x is None) or ValueError (x is no integer literal).                   *)
ParseInt(x) ==
    IF x = None THEN [ok |-> FALSE, v |-> 0]
    ELSE LET t == Strip(x)
             signed == t # <<>> /\ Head(t) \in {"-", "+"}
             d == IF signed THEN Tail(t) ELSE t
         IN  IF AllDigits(d)
             THEN [ok |-> TRUE,
                   v  |-> IF signed /\ Head(t) = "-"
                          THEN 0 - DigitsValue(d) ELSE DigitsValue(d)]
             ELSE [ok |-> FALSE, v |-> 0]

RECURSIVE NatStr(_)
NatStr(n) ==
    IF n < 10 THEN <<Digits[n + 1]>>
    ELSE NatStr(n \div 10) \o <<Digits[(n % 10) + 1]>>

(* str(n) of an integer, as the f-strings format it *)
IntStr(n) == IF n < 0 THEN <<"-">> \o NatStr(0 - n) ELSE NatStr(n)

RECURSIVE Join(_, _)
Join(sep, lines) ==
    IF lines = <<>> THEN <<>>
    ELSE IF Len(lines) = 1 THEN lines[1]
    ELSE lines[1] \o sep \o Join(sep, Tail(lines))

RECURSIVE Repeat(_, _)
Repeat(c, n) == IF n <= 0 THEN <<>> ELSE <<c>> \o Repeat(c, n - 1)

(* re.sub(r"[ \t]+\n", "\n", s) *)
RECURSIVE DropBlanksBeforeNewline(_)
DropBlanksBeforeNewline(s) ==
    IF s = <<>> THEN <<>>
    ELSE LET rest == DropBlanksBeforeNewline(Tail(s))
         IN  IF Head(s) \in {" ", "\t"} /\ rest # <<>> /\ Head(rest) = NL
             THEN rest
             ELSE <<Head(s)>> \o rest

----------------------------------------------------------------------------
(* The element tree.  A node is a record; a text leaf has name "#text"    *)
(* (bs4: name is None) and carries its characters in string.  An absent   *)
(* attribute is None; class is the list of class tokens ([] when absent). *)

Text(s) ==
    [name |-> "#text", class |-> <<>>, type |-> None, value |-> None,
     start |-> None, src |-> None, id |-> None, string |-> s,
     children |-> <<>>]

Elem(name, class, children) ==
    [name |-> name, class |-> class, type |-> None, value |-> None,
     start |-> None, src |-> None, id |-> None, string |-> <<>>,
     children |-> children]

IsText(node) == node.name = "#text"

(* Tag.get_text(): the strings of all text leaves below the node, in order *)
RECURSIVE GetText(_)
GetText(node) ==
    IF IsText(node) THEN node.string
    ELSE LET RECURSIVE Cat(_)
             Cat(cs) == IF cs = <<>> THEN <<>>
                        ELSE GetText(Head(cs)) \o Cat(Tail(cs))
         IN  Cat(node.children)

(* Tag.find(name, id=...): some descendant has that name and id *)
RECURSIVE HasDescendant(_, _, _)
HasDescendant(node, name, id) ==
    \E i \in 1..Len(node.children) :
        \/ (node.children[i].name = name /\ node.children[i].id = id)
        \/ HasDescendant(node.children[i], name, id)

(* find_all('li', recursive=False) *)
RECURSIVE DirectItems(_)
DirectItems(cs) ==
    IF cs = <<>> THEN <<>>
    ELSE IF Head(cs).name = "li" THEN <<Head(cs)>> \o DirectItems(Tail(cs))
    ELSE DirectItems(Tail(cs))

----------------------------------------------------------------------------
(* The marker resolver *)

CIRCLED_NUMBERS ==
    <<"circled-1", "circled-2", "circled-3", "circled-4", "circled-5",
      "circled-6", "circled-7", "circled-8", "circled-9", "circled-10",
      "circled-11", "circled-12", "circled-13", "circled-14", "circled-15",
      "circled-16", "circled-17", "circled-18", "circled-19", "circled-20">>

Letters ==
    <<"a", "b", "c", "d", "e", "f", "g", "h", "i", "j", "k", "l", "m",
      "n", "o", "p", "q", "r", "s", "t", "u", "v", "w", "x", "y", "z">>

UpperLetters ==
    <<"A", "B", "C", "D", "E", "F", "G", "H", "I", "J", "K", "L", "M",
      "N", "O", "P", "Q", "R", "S", "T", "U", "V", "W", "X", "Y", "Z">>

(* str.lower() on the characters the type attribute is drawn from *)
LowerChar(c) ==
    IF \E i \in 1..26 : UpperLetters[i] = c
    THEN Letters[CHOOSE i \in 1..26 : UpperLetters[i] = c]
    ELSE c

Lower(s) == [i \in 1..Len(s) |-> LowerChar(s[i])]

HasPrefix(s, p) == Len(s) >= Len(p) /\ SubSeq(s, 1, Len(p)) = p

(* _LI_CLASS_RE.match(cls): "li" followed by digits up to the end *)
LiClassMatch(cls) ==
    HasPrefix(cls, <<"l", "i">>) /\ AllDigits(SubSeq(cls, 3, Len(cls)))

(* _MARU_CLASS_RE.match(cls): "maru" followed by digits up to the end *)
MaruClassMatch(cls) ==
    HasPrefix(cls, <<"m", "a", "r", "u">>) /\ AllDigits(SubSeq(cls, 5, Len(cls)))

GetOrderedStart(list) ==
    IF list.name # "ol" THEN 1
    ELSE IF list.start = None THEN 1
    ELSE IF ParseInt(list.start).ok THEN ParseInt(list.start).v
    ELSE 1

CircledNumber(value) ==
    IF value \in 1..20 THEN <<CIRCLED_NUMBERS[value]>>
    ELSE <<"(">> \o IntStr(value) \o <<")">>

(* the loop of _marker_from_classes: [class_number, maru_number] after the *)
(* class tokens, each None (here: a record with set = FALSE) or an integer *)
RECURSIVE ClassNumbers(_, _)
ClassNumbers(classes, acc) ==
    IF classes = <<>> THEN acc
    ELSE LET cls == Head(classes)
         IN  IF LiClassMatch(cls)
             THEN ClassNumbers(Tail(classes),
                     [acc EXCEPT !.li = [set |-> TRUE,
                         v |-> DigitsValue(SubSeq(cls, 3, Len(cls)))]])
             ELSE IF MaruClassMatch(cls)
             THEN ClassNumbers(Tail(classes),
                     [acc EXCEPT !.maru = [set |-> TRUE,
                         v |-> DigitsValue(SubSeq(cls, 5, Len(cls)))]])
             ELSE ClassNumbers(Tail(classes), acc)

(* mutant: the indexed class is tried before the circled-number class *)
MarkerFromClasses_LiFirst(li) ==
    LET n == ClassNumbers(li.class, [li   |-> [set |-> FALSE, v |-> 0],
                                     maru |-> [set |-> FALSE, v |-> 0]])
    IN  IF n.li.set THEN <<"(">> \o IntStr(n.li.v) \o <<")">>
        ELSE IF n.maru.set THEN CircledNumber(n.maru.v)
        ELSE None

(* _marker_from_classes: None when no class token gives a marker *)
MarkerFromClasses(li) ==
    LET n == ClassNumbers(li.class, [li   |-> [set |-> FALSE, v |-> 0],
                                     maru |-> [set |-> FALSE, v |-> 0]])
    IN  IF n.maru.set THEN CircledNumber(n.maru.v)
        ELSE IF n.li.set THEN <<"(">> \o IntStr(n.li.v) \o <<")">>
        ELSE None

(* mutant: the letter is lowercase whatever the case of the type attribute *)
MarkerFromType_Lowercase(list, number, type_attr) ==
    IF list.name # "ol" \/ type_attr = <<>> THEN None
    ELSE IF Lower(type_attr) = <<"a">> /\ 1 <= number /\ number <= 26
    THEN <<Letters[number], ".">>
    ELSE None

(* _marker_from_type: None when the type attribute gives no marker *)
MarkerFromType(list, number, type_attr) ==
    IF list.name # "ol" \/ type_attr = <<>> THEN None
    ELSE IF Lower(type_attr) = <<"a">> /\ 1 <= number /\ number <= 26
    THEN <<(IF type_attr = <<"A">> THEN UpperLetters ELSE Letters)[number], ".">>
    ELSE None

DefaultMarker(list, number) ==
    IF list.name = "ol" THEN IntStr(number) \o <<".">> ELSE <<"-">>

GetListMarker(list, li, number) ==
    LET type_attr == Strip(IF list.type = None THEN <<>> ELSE list.type)
    IN  IF MarkerFromClasses(li) # None THEN MarkerFromClasses(li)
        ELSE IF MarkerFromType(list, number, type_attr) # None
        THEN MarkerFromType(list, number, type_attr)
        ELSE DefaultMarker(list, number)

----------------------------------------------------------------------------
(* The list renderer *)

BB == <<"b", "b">>

HasClass(node, token) == \E i \in 1..Len(node.class) : node.class[i] = token

(* mutant: the blank is underlined but loses its em-space padding *)
BlankSpan_NoPadding(child) ==
    <<"<u>">> \o Strip(GetText(child)) \o <<"</u>">>

(* f"<u>&emsp;{text}&emsp;</u>" with text = child.get_text().strip() *)
BlankSpan(child) ==
    <<"<u>", "&emsp;">> \o Strip(GetText(child)) \o <<"&emsp;", "</u>">>

(* the u branch: text leaves by their string, other children by get_text() *)
RECURSIVE UContent(_)
UContent(cs) ==
    IF cs = <<>> THEN <<>>
    ELSE (IF IsText(Head(cs)) THEN Head(cs).string ELSE GetText(Head(cs)))
         \o UContent(Tail(cs))

UnderlineSpan(child) == <<"<u>">> \o UContent(child.children) \o <<"</u>">>

(* the text-leaf branch of process_list *)
LiTextLeaf(child, li_text) ==
    LET stripped_text == Strip(child.string)
        prefix_space ==
            IF /\ IsSpace(child.string[1])
               /\ li_text # <<>>
               /\ li_text[Len(li_text)] \notin {" ", NL}
            THEN <<" ">> ELSE <<>>
        suffix_space ==
            IF IsSpace(child.string[Len(child.string)]) THEN <<" ">> ELSE <<>>
    IN  IF child.string = <<>> \/ stripped_text = <<>> THEN li_text
        ELSE li_text \o prefix_space \o stripped_text \o suffix_space

RECURSIVE ProcessList(_, _)

(* mutant: a nested list is rendered at the depth of its parent *)
LiChild_SameDepth(child, li_text, indent) ==
    IF child.name = "span" /\ HasClass(child, BB)
    THEN li_text \o BlankSpan(child)
    ELSE IF child.name \in {"ul", "ol"}
    THEN li_text \o <<NL, NL>> \o ProcessList(child, indent)
    ELSE IF IsText(child)
    THEN LiTextLeaf(child, li_text)
    ELSE IF child.name = "u"
    THEN li_text \o UnderlineSpan(child)
    ELSE li_text \o Strip(GetText(child))

(* one pass of "for child in li.children": li_text after the child *)
LiChild(child, li_text, indent) ==
    IF child.name = "span" /\ HasClass(child, BB)
    THEN li_text \o BlankSpan(child)
    ELSE IF child.name \in {"ul", "ol"}
    THEN li_text \o <<NL, NL>> \o ProcessList(child, indent + 1)
    ELSE IF IsText(child)
    THEN LiTextLeaf(child, li_text)
    ELSE IF child.name = "u"
    THEN li_text \o UnderlineSpan(child)
    ELSE li_text \o Strip(GetText(child))

RECURSIVE LiChildren(_, _, _)
LiChildren(cs, li_text, indent) ==
    IF cs = <<>> THEN li_text
    ELSE LiChildren(Tail(cs), LiChild(Head(cs), li_text, indent), indent)

(* li_text after the children loop and the two normalisations *)
LiText(li, indent) ==
    RStrip(DropBlanksBeforeNewline(LiChildren(li.children, <<>>, indent)))

NumberForMarker(li, current) ==
    IF ParseInt(li.value).ok THEN ParseInt(li.value).v ELSE current

(* f"{indent}{marker} {li_text}" *)
ItemLine(list, li, current, indent) ==
    Repeat(IndentUnit, indent)
    \o GetListMarker(list, li, NumberForMarker(li, current))
    \o <<" ">> \o LiText(li, indent)

(* mutant: the counter advances by one, whatever the item's value *)
AdvanceNumber_IgnoreValue(list, li, current) ==
    IF list.name = "ol" THEN current + 1 ELSE current

(* current_number after an item *)
AdvanceNumber(list, li, current) ==
    IF list.name = "ol" THEN NumberForMarker(li, current) + 1 ELSE current

RECURSIVE ListLines(_, _, _, _)
ListLines(list, items, current, indent) ==
    IF items = <<>> THEN <<>>
    ELSE <<ItemLine(list, Head(items), current, indent)>>
         \o ListLines(list, Tail(items),
                      AdvanceNumber(list, Head(items), current), indent)

ProcessList(list, indent) ==
    Join(<<NL, NL>>,
         ListLines(list, DirectItems(list.children), GetOrderedStart(list), indent))

----------------------------------------------------------------------------
(* The inline/block converter *)

BlockTags ==
    {"p", "div", "ul", "ol", "blockquote",
     "h1", "h2", "h3", "h4", "h5", "h6", "img"}

(* Path(urlparse(img_url).path).name: what follows the last "/" *)
RECURSIVE Basename(_)
Basename(url) ==
    IF \E i \in 1..Len(url) : url[i] = "/"
    THEN Basename(Tail(url))
    ELSE url

(* download_image: the relative path, or None when the download fails; *)
(* fails is the set of sources whose request or file write raises       *)
DownloadImage(src, fails, pfx) ==
    IF src \in fails THEN None
    ELSE <<".", "/", "assets", "/">>
         \o (IF pfx # <<>> THEN pfx \o <<"_">> ELSE <<>>)
         \o Basename(src)

ImageBlock(local_path) ==
    <<"<div style=\"text-align: center;\">", NL, " ", " ", "<img src=\"">>
    \o local_path
    \o <<"\"", " ", "style=\"max-width: 100%; background-color: white;\">",
         NL, "</div>", NL, NL>>

RECURSIVE ProcessElement(_, _, _)

(* mutant: a block child's fragment is wrapped without being trimmed *)
ElementChild_NoTrim(child, text, fails, pfx) ==
    IF child.name = "span" /\ HasClass(child, BB)
    THEN text \o BlankSpan(child)
    ELSE IF child.name = "br"
    THEN text \o <<NL, NL>>
    ELSE IF IsText(child)
    THEN text \o child.string
    ELSE IF child.name = "u"
    THEN text \o UnderlineSpan(child)
    ELSE IF child.name \in BlockTags
    THEN text \o <<NL, NL>> \o ProcessElement(child, fails, pfx) \o <<NL, NL>>
    ELSE text \o Strip(ProcessElement(child, fails, pfx))

(* one pass of "for child in element.children": md_text after the child *)
ElementChild(child, text, fails, pfx) ==
    IF child.name = "span" /\ HasClass(child, BB)
    THEN text \o BlankSpan(child)
    ELSE IF child.name = "br"
    THEN text \o <<NL, NL>>
    ELSE IF IsText(child)
    THEN text \o child.string
    ELSE IF child.name = "u"
    THEN text \o UnderlineSpan(child)
    ELSE IF child.name \in BlockTags
    THEN text \o <<NL, NL>> \o Strip(ProcessElement(child, fails, pfx))
              \o <<NL, NL>>
    ELSE text \o Strip(ProcessElement(child, fails, pfx))

RECURSIVE ElementChildren(_, _, _, _)
ElementChildren(cs, text, fails, pfx) ==
    IF cs = <<>> THEN text
    ELSE ElementChildren(Tail(cs), ElementChild(Head(cs), text, fails, pfx),
                         fails, pfx)

(* mutant: the result of download_image is used without the None check *)
ProcessImage_NoResultCheck(img, fails, pfx) ==
    IF img.src = None \/ img.src = <<>> THEN <<>>
    ELSE ImageBlock(DownloadImage(img.src, fails, pfx))

(* the img branch of process_element *)
ProcessImage(img, fails, pfx) ==
    IF img.src = None \/ img.src = <<>> THEN <<>>
    ELSE IF DownloadImage(img.src, fails, pfx) = None THEN <<>>
    ELSE ImageBlock(DownloadImage(img.src, fails, pfx))

ProcessElement(el, fails, pfx) ==
    IF el.name \in {"ul", "ol"} THEN ProcessList(el, 0) \o <<NL, NL>>
    ELSE IF el.name = "img" THEN ProcessImage(el, fails, pfx)
    ELSE ElementChildren(el.children, <<>>, fails, pfx) \o <<NL, NL>>

----------------------------------------------------------------------------
(* Bounds and the inputs drawn from them *)

MaxItems == 3        \* direct items of a rendered list

MaxChildren == 3     \* children of the one item of a deep list, of an element

MaxIndent == 1       \* indent_level of the outermost process_list call

SeqsUpTo(S, n) == UNION {[1..k -> S] : k \in 0..n}

LI3 == <<"l", "i", "3">>
LI12 == <<"l", "i", "1", "2">>
MARU0 == <<"m", "a", "r", "u", "0">>
MARU1 == <<"m", "a", "r", "u", "1">>
MARU2 == <<"m", "a", "r", "u", "2">>
MARU20 == <<"m", "a", "r", "u", "2", "0">>
MARU21 == <<"m", "a", "r", "u", "2", "1">>
OPT == <<"o", "p", "t">>

(* the class tokens of the kana letters with the letter each stands for, *)
(* in the order of the if/elif chain                                     *)
KanaClasses ==
    << << <<"l", "i", "a">>, "kana-a" >>,       << <<"l", "i", "i">>, "kana-i" >>,
       << <<"l", "i", "u">>, "kana-u" >>,       << <<"l", "i", "e">>, "kana-e" >>,
       << <<"l", "i", "o">>, "kana-o" >>,       << <<"l", "i", "k", "a">>, "kana-ka" >>,
       << <<"l", "i", "k", "i">>, "kana-ki" >>, << <<"l", "i", "k", "u">>, "kana-ku" >>,
       << <<"l", "i", "k", "e">>, "kana-ke" >>, << <<"l", "i", "k", "o">>, "kana-ko" >> >>

KanaTable == {KanaClasses[i] : i \in 1..Len(KanaClasses)}

KanaTokens == {e[1] : e \in KanaTable}

LIA == <<"l", "i", "a">>

Li(class, value, children) == [Elem("li", class, children) EXCEPT !.value = value]

List(name, type, start, children) ==
    [Elem(name, <<>>, children) EXCEPT !.type = type, !.start = start]

PlainText == Text(<<"t">>)

Plain == Li(<<>>, None, <<PlainText>>)

(* family 1: ordinals and type markers *)
TypeAttrs == {None, <<"a">>, <<"A">>, <<" ", "a", " ">>}

StartAttrs == {None, <<"5">>, <<"x">>, <<"0">>}

MarkerItems ==
    { Plain,
      Li(<<>>, <<"2">>, <<PlainText>>),
      Li(<<>>, <<"2", "7">>, <<PlainText>>),
      Li(<<>>, <<"x">>, <<PlainText>>),
      Li(<<LI3>>, None, <<PlainText>>) }

MarkerLists ==
    { List(n, t, s, items) :
        n \in {"ul", "ol"}, t \in TypeAttrs, s \in StartAttrs,
        items \in SeqsUpTo(MarkerItems, MaxItems) }

(* family 2: one item with class tokens, at every position *)
ClassLists ==
    {<<k>> : k \in KanaTokens}
    \cup { <<LI3>>, <<LI12>>, <<MARU0>>, <<MARU1>>, <<MARU20>>, <<MARU21>>,
           <<OPT, LI3>>, <<LI3, MARU2>>, <<MARU2, LI3>>, <<LI3, LI12>>,
           <<LIA, LI3>>, <<MARU1, LIA>>, <<OPT, LIA>> }

ClassItems ==
    { Li(c, v, <<PlainText>>) : c \in ClassLists, v \in {None, <<"5">>} }

ClassListsInput ==
    { List(n, t, s, [i \in 1..k |-> Plain] \o <<c>> \o tail) :
        n \in {"ul", "ol"}, t \in {None, <<"a">>}, s \in {None, <<"5">>},
        k \in 0..(MaxItems - 1), c \in ClassItems, tail \in {<<>>, <<Plain>>} }

(* family 3: items with content, several per list *)
BlankB == Elem("span", <<BB>>, <<Text(<<"b">>)>>)

NestedOl == Elem("ol", <<>>, <<Plain, Text(<<NL, " ">>), Plain>>)

NestedUl == Elem("ul", <<>>, <<Li(<<>>, None, <<Text(<<"n">>)>>)>>)

DeepUl ==
    Elem("ul", <<>>, <<Li(<<>>, None, <<Text(<<"n", NL>>), NestedOl>>)>>)

ContentItems ==
    { Li(<<>>, None, <<Text(<<"A">>)>>),
      Li(<<>>, None, <<Text(<<"A", NL, " ">>), NestedOl, Text(<<NL, " ">>)>>),
      Li(<<>>, None, <<DeepUl>>),
      Li(<<>>, None, <<Text(<<"A">>), NestedUl, Text(<<"C">>)>>),
      Li(<<>>, None, <<Text(<<"x", " ">>), BlankB, Text(<<" ", "y">>)>>),
      Li(<<>>, None, <<>>) }

ContentLists ==
    { List(n, None, None, items) :
        n \in {"ul", "ol"}, items \in SeqsUpTo(ContentItems, MaxItems) }

(* family 4: one item, every sequence of children *)
ChildKinds ==
    { Text(<<"x">>), Text(<<" ", "y", " ">>), Text(<<NL, " ">>), BlankB,
      NestedUl,
      Elem("b", <<>>, <<Text(<<"w">>), BlankB>>),
      Elem("u", <<>>, <<Text(<<"v">>), Elem("i", <<>>, <<Text(<<"z">>)>>)>>),
      Elem("div", <<>>, <<NestedUl>>) }

DeepLists ==
    { List("ul", None, None, <<Li(<<>>, None, cs)>>) :
        cs \in SeqsUpTo(ChildKinds, MaxChildren) }

----------------------------------------------------------------------------
(* process_list as a state machine: one step per direct item *)

Idle == None

ListVarsIdle ==
    /\ list_element = Idle /\ indent_level = 0 /\ li_index = 0
    /\ current_number = 0 /\ md_lines = <<>>

ElemVarsIdle ==
    /\ element = Idle /\ failing = {} /\ prefix = <<>> /\ child_index = 0
    /\ md_text = <<>>

MainVarsIdle ==
    /\ fetch = Idle /\ dir_state = Idle /\ container = Idle /\ elem_index = 0
    /\ markdown_content = <<>> /\ file = None /\ printed = <<>>

InitList ==
    /\ call = "process_list"
    /\ pc = "call"
    /\ \/ list_element \in MarkerLists \cup ClassListsInput /\ indent_level = 0
       \/ list_element \in ContentLists \cup DeepLists
          /\ indent_level \in 0..MaxIndent
    /\ li_index = 0 /\ current_number = 0 /\ md_lines = <<>>
    /\ result = None
    /\ ElemVarsIdle /\ MainVarsIdle

ListUnchanged ==
    UNCHANGED <<call, list_element, indent_level, element, failing, prefix,
                child_index, md_text, fetch, dir_state, container, elem_index,
                markdown_content, file, printed>>

(* lines 114-118 *)
ListStart ==
    /\ call = "process_list" /\ pc = "call"
    /\ current_number' = GetOrderedStart(list_element)
    /\ md_lines' = <<>>
    /\ li_index' = 0
    /\ pc' = "loop"
    /\ UNCHANGED result
    /\ ListUnchanged

(* one iteration of the loop over the direct items, lines 120-168 *)
ListItem ==
    /\ call = "process_list" /\ pc = "loop"
    /\ li_index < Len(DirectItems(list_element.children))
    /\ LET li == DirectItems(list_element.children)[li_index + 1]
       IN  /\ md_lines' = Append(md_lines,
                  ItemLine(list_element, li, current_number, indent_level))
           /\ current_number' = AdvanceNumber(list_element, li, current_number)
    /\ li_index' = li_index + 1
    /\ UNCHANGED <<pc, result>>
    /\ ListUnchanged

(* line 170 *)
ListReturn ==
    /\ call = "process_list" /\ pc = "loop"
    /\ li_index = Len(DirectItems(list_element.children))
    /\ result' = Join(<<NL, NL>>, md_lines)
    /\ pc' = "done"
    /\ UNCHANGED <<li_index, current_number, md_lines>>
    /\ ListUnchanged

NextList == ListStart \/ ListItem \/ ListReturn

SpecList == InitList /\ [][NextList]_vars

----------------------------------------------------------------------------
(* Properties of the list renderer, checked under SpecList *)

Items == DirectItems(list_element.children)

InLoop == call = "process_list" /\ pc # "call"

Indent == Repeat(IndentUnit, indent_level)

(* the k-th emitted line is indent, the marker m, a space, the item's text *)
LineHasMarker(k, m) ==
    md_lines[k] = Indent \o m \o <<" ">> \o LiText(Items[k], indent_level)

Occurs(s, sub) ==
    \E i \in 0..(Len(s) - Len(sub)) : SubSeq(s, i + 1, i + Len(sub)) = sub

LiNumbers(li) ==
    { DigitsValue(SubSeq(li.class[i], 3, Len(li.class[i]))) :
        i \in {j \in 1..Len(li.class) : LiClassMatch(li.class[j])} }

MaruNumbers(li) ==
    { DigitsValue(SubSeq(li.class[i], 5, Len(li.class[i]))) :
        i \in {j \in 1..Len(li.class) : MaruClassMatch(li.class[j])} }

HasNumberClass(li) == LiNumbers(li) # {} \/ MaruNumbers(li) # {}

(* the list's start attribute, 1 when absent or not an integer *)
StartValue(list) == IF ParseInt(list.start).ok THEN ParseInt(list.start).v ELSE 1

(* the effective ordinal of the k-th item, as the data model defines it *)
RECURSIVE EffectiveOrdinal(_, _, _)
EffectiveOrdinal(list, items, k) ==
    IF ParseInt(items[k].value).ok THEN ParseInt(items[k].value).v
    ELSE IF k = 1 THEN StartValue(list)
    ELSE EffectiveOrdinal(list, items, k - 1) + 1

(* the code takes the letter branch for this list *)
LetterTyped(list) ==
    list.name = "ol" /\ list.type # None /\ Lower(Strip(list.type)) = <<"a">>

(* C1: in an ordered list the running counter starts at the start        *)
(* attribute (1 when absent or not an integer) and after each item is    *)
(* that item's effective ordinal + 1, also after an item whose marker    *)
(* came from a class token; an item without class marker in a list       *)
(* without letter type gets the marker "<effective ordinal>."            *)
ThmC1_OrdinalCounter ==
    (InLoop /\ list_element.name = "ol") =>
        /\ current_number =
              IF li_index = 0 THEN StartValue(list_element)
              ELSE EffectiveOrdinal(list_element, Items, li_index) + 1
        /\ \A k \in 1..li_index :
              (~HasNumberClass(Items[k]) /\ ~LetterTyped(list_element)) =>
                  LineHasMarker(k,
                      IntStr(EffectiveOrdinal(list_element, Items, k)) \o <<".">>)

WitC1_StartFiveValueTwo ==
    /\ call = "process_list" /\ pc = "done"
    /\ list_element.name = "ol" /\ list_element.start = <<"5">>
    /\ list_element.type = None
    /\ Len(Items) = 3
    /\ Items[1].value = None /\ Items[2].value = <<"2">> /\ Items[3].value = None
    /\ md_lines = << <<"5", ".", " ", "t">>, <<"2", ".", " ", "t">>,
                     <<"3", ".", " ", "t">> >>

(* C2: an item with a kana class token gets the marker "<kana>," whatever *)
(* the list kind, type attribute, other class tokens or ordinal           *)
CexC2_KanaMarker ==
    InLoop =>
        \A k \in 1..li_index : \A e \in KanaTable :
            HasClass(Items[k], e[1]) => LineHasMarker(k, <<e[2], "kana-comma">>)

(* C3: an item with a class token maruN gets the circled number for N in  *)
(* 1..20 and "(N)" otherwise; without a maru token, an item with a class  *)
(* token liN gets "(N)"; whatever the position, list kind, type, start    *)
(* and value attributes                                                   *)
ThmC3_NumberClassMarker ==
    InLoop =>
        \A k \in 1..li_index :
            IF MaruNumbers(Items[k]) # {}
            THEN \E n \in MaruNumbers(Items[k]) :
                    LineHasMarker(k,
                        IF n \in 1..20 THEN <<CIRCLED_NUMBERS[n]>>
                        ELSE <<"(">> \o IntStr(n) \o <<")">>)
            ELSE LiNumbers(Items[k]) # {} =>
                    \E n \in LiNumbers(Items[k]) :
                        LineHasMarker(k, <<"(">> \o IntStr(n) \o <<")">>)

WitC3_ClassMarkers ==
    /\ call = "process_list" /\ pc = "done"
    /\ list_element.name = "ol" /\ list_element.type = <<"a">>
    /\ list_element.start = <<"5">>
    /\ Len(Items) = 3
    /\ Items[3].class = <<LI3, MARU2>> /\ Items[3].value = <<"5">>
    /\ md_lines[3] = <<"circled-2", " ", "t">>

(* C4: in an ordered list whose type attribute is "a" or "A", an item     *)
(* without class marker and with effective ordinal n gets the n-th letter *)
(* and "." for n in 1..26 (uppercase exactly for "A") and "n." otherwise; *)
(* an unordered list gets no letter marker                                *)
ThmC4_LetterMarker ==
    InLoop =>
        \A k \in 1..li_index :
            ~HasNumberClass(Items[k]) =>
                /\ (list_element.name = "ol" /\ list_element.type # None
                    /\ Lower(list_element.type) = <<"a">>) =>
                      LET n == EffectiveOrdinal(list_element, Items, k)
                      IN  IF n \in 1..26
                          THEN LineHasMarker(k,
                                  <<(IF list_element.type = <<"A">>
                                     THEN UpperLetters ELSE Letters)[n], ".">>)
                          ELSE LineHasMarker(k, IntStr(n) \o <<".">>)
                /\ list_element.name = "ul" => LineHasMarker(k, <<"-">>)

WitC4_LettersAndFallThrough ==
    /\ call = "process_list" /\ pc = "done"
    /\ list_element.name = "ol" /\ list_element.type = <<"A">>
    /\ list_element.start = <<"5">>
    /\ md_lines = << <<"E", ".", " ", "t">>, <<"F", ".", " ", "t">>,
                     <<"2", "7", ".", " ", "t">> >>

IsListNode(c) == c.name \in {"ul", "ol"}

NotListNode(c) == ~IsListNode(c)

(* the item's own text: what its children other than lists render to *)
OwnText(li, indent) ==
    RStrip(DropBlanksBeforeNewline(
        LiChildren(SelectSeq(li.children, NotListNode), <<>>, indent)))

(* every list that is a direct child, rendered one level deeper and *)
(* preceded by a blank line                                         *)
RECURSIVE NestedParts(_, _)
NestedParts(cs, indent) ==
    IF cs = <<>> THEN <<>>
    ELSE (IF IsListNode(Head(cs))
          THEN <<NL, NL>> \o ProcessList(Head(cs), indent + 1) ELSE <<>>)
         \o NestedParts(Tail(cs), indent)

(* the k-th line is the indent, a marker without whitespace, a space, body *)
LineIs(k, body) ==
    LET line == md_lines[k]
        ml == Len(line) - Len(Indent) - 1 - Len(body)
    IN  /\ ml >= 1
        /\ SubSeq(line, 1, Len(Indent)) = Indent
        /\ \A i \in (Len(Indent) + 1)..(Len(Indent) + ml) : ~IsSpace(line[i])
        /\ line[Len(Indent) + ml + 1] = " "
        /\ SubSeq(line, Len(Indent) + ml + 2, Len(line)) = body

(* where a line of s begins: at its start and after a blank line *)
LineStarts(s) ==
    { i \in 1..Len(s) :
        s[i] # NL /\ (i = 1 \/ (i > 2 /\ s[i - 1] = NL /\ s[i - 2] = NL)) }

RECURSIVE IndentOf(_, _)
IndentOf(s, i) ==
    IF i <= Len(s) /\ s[i] = IndentUnit THEN 1 + IndentOf(s, i + 1) ELSE 0

----------------------------------------------------------------------------
(* process_element as a state machine: one step per child *)

ImgSrc == <<"i", "m", "g", "/", "a", ".", "p", "n", "g">>

Img == [Elem("img", <<>>, <<>>) EXCEPT !.src = ImgSrc]

ImgNoSrc == Elem("img", <<>>, <<>>)

Underlined == Elem("u", <<>>, <<Text(<<"v">>), BlankB>>)

ItemsUl ==
    Elem("ul", <<>>,
         << Li(<<>>, None, <<Text(<<"T", " ">>), BlankB>>),
            Li(<<>>, None, <<Elem("b", <<>>, <<BlankB>>)>>) >>)

ElemChildKinds ==
    { Text(<<"x">>), BlankB, Elem("br", <<>>, <<>>), Underlined,
      Elem("p", <<>>, <<Text(<<"P">>), Elem("b", <<>>, <<BlankB>>)>>),
      Elem("b", <<>>, <<BlankB>>),
      ItemsUl, Img, ImgNoSrc,
      Elem("div", <<>>, <<>>) }

ElemInputs ==
    { Elem("div", <<>>, cs) : cs \in SeqsUpTo(ElemChildKinds, MaxChildren) }
    \cup { ItemsUl, NestedOl, Img, ImgNoSrc }

InitElem ==
    /\ call = "process_element"
    /\ pc = "call"
    /\ element \in ElemInputs
    /\ failing \in {{}, {ImgSrc}}
    /\ prefix \in {<<>>, <<"p">>}
    /\ child_index = 0 /\ md_text = <<>>
    /\ result = None
    /\ ListVarsIdle /\ MainVarsIdle

ElemUnchanged ==
    UNCHANGED <<call, list_element, indent_level, li_index, current_number,
                md_lines, element, failing, prefix, fetch, dir_state, container,
                elem_index, markdown_content, file, printed>>

(* lines 177-179: a list is handed to process_list *)
ElemList ==
    /\ call = "process_element" /\ pc = "call"
    /\ element.name \in {"ul", "ol"}
    /\ result' = ProcessList(element, 0) \o <<NL, NL>>
    /\ pc' = "done"
    /\ UNCHANGED <<child_index, md_text>>
    /\ ElemUnchanged

(* lines 182-194: an image *)
ElemImage ==
    /\ call = "process_element" /\ pc = "call"
    /\ element.name = "img"
    /\ result' = ProcessImage(element, failing, prefix)
    /\ pc' = "done"
    /\ UNCHANGED <<child_index, md_text>>
    /\ ElemUnchanged

(* line 175 and the entry of the loop of line 197 *)
ElemStart ==
    /\ call = "process_element" /\ pc = "call"
    /\ element.name \notin {"ul", "ol", "img"}
    /\ md_text' = <<>>
    /\ child_index' = 0
    /\ pc' = "loop"
    /\ UNCHANGED result
    /\ ElemUnchanged

(* one iteration of the loop over the children, lines 197-226 *)
ElemChild ==
    /\ call = "process_element" /\ pc = "loop"
    /\ child_index < Len(element.children)
    /\ md_text' = ElementChild(element.children[child_index + 1], md_text,
                               failing, prefix)
    /\ child_index' = child_index + 1
    /\ UNCHANGED <<pc, result>>
    /\ ElemUnchanged

(* mutant: the accumulated text is returned as it is *)
ElemReturn_NoBlankLine ==
    /\ call = "process_element" /\ pc = "loop"
    /\ child_index = Len(element.children)
    /\ result' = md_text
    /\ pc' = "done"
    /\ UNCHANGED <<child_index, md_text>>
    /\ ElemUnchanged

(* line 228 *)
ElemReturn ==
    /\ call = "process_element" /\ pc = "loop"
    /\ child_index = Len(element.children)
    /\ result' = md_text \o <<NL, NL>>
    /\ pc' = "done"
    /\ UNCHANGED <<child_index, md_text>>
    /\ ElemUnchanged

NextElem == ElemList \/ ElemImage \/ ElemStart \/ ElemChild \/ ElemReturn

SpecElem == InitElem /\ [][NextElem]_vars

----------------------------------------------------------------------------
(* Properties of the converter, checked under SpecElem *)

Converted == call = "process_element" /\ pc = "done"

Generic == element.name \notin {"ul", "ol", "img"}

IsBlank(node) == node.name = "span" /\ HasClass(node, BB)

(* what a fill-in-blank span with inner text b must render to *)
RenderedBlank == <<"<u>", "&emsp;", "b", "&emsp;", "</u>">>

CountOccurrences(s, sub) ==
    Cardinality({i \in 0..(Len(s) - Len(sub)) :
                    SubSeq(s, i + 1, i + Len(sub)) = sub})

(* the fill-in-blank spans anywhere below the node *)
RECURSIVE CountBlanks(_)
CountBlanks(node) ==
    IF IsBlank(node) THEN 1
    ELSE LET RECURSIVE Sum(_)
             Sum(cs) == IF cs = <<>> THEN 0
                        ELSE CountBlanks(Head(cs)) + Sum(Tail(cs))
         IN  Sum(node.children)

(* the fill-in-blank spans that are direct children of an item of the    *)
(* list, or of an item of a list that is a direct child of such an item  *)
RECURSIVE ListBlanks(_)
ListBlanks(list) ==
    LET RECURSIVE InItem(_)
        InItem(cs) ==
            IF cs = <<>> THEN 0
            ELSE (IF IsBlank(Head(cs)) THEN 1
                  ELSE IF IsListNode(Head(cs)) THEN ListBlanks(Head(cs))
                  ELSE 0) + InItem(Tail(cs))
        RECURSIVE InItems(_)
        InItems(lis) ==
            IF lis = <<>> THEN 0
            ELSE InItem(Head(lis).children) + InItems(Tail(lis))
    IN  InItems(DirectItems(list.children))

(* the fill-in-blank spans reached by the converter: children of the     *)
(* converted element or of an element it recurses into (not u, not img), *)
(* and those of the lists it hands to the list renderer                  *)
RECURSIVE ConvertedBlanks(_)
ConvertedBlanks(el) ==
    IF IsListNode(el) THEN ListBlanks(el)
    ELSE IF el.name = "img" THEN 0
    ELSE LET RECURSIVE Sum(_)
             Sum(cs) ==
                 IF cs = <<>> THEN 0
                 ELSE (IF IsBlank(Head(cs)) THEN 1
                       ELSE IF Head(cs).name \in {"br", "#text", "u"} THEN 0
                       ELSE ConvertedBlanks(Head(cs))) + Sum(Tail(cs))
         IN  Sum(el.children)

(* C5 as stated: every fill-in-blank span of the converted tree, at any  *)
(* depth and inside list items too, appears in the output as             *)
(* "<u>&emsp;b&emsp;</u>"                                                *)
CexC5_BlankAnywhere ==
    Converted =>
        CountOccurrences(result, RenderedBlank) = CountBlanks(element)

(* C5 as amended: the spans rendered as "<u>&emsp;b&emsp;</u>" are those *)
(* that are a child of the converted element, of an element the          *)
(* converter recurses into, or of an item of a rendered list; a span     *)
(* inside a u element or inside another element within a list item is    *)
(* flattened to its text                                                 *)
ThmC5_BlankWhereConverted ==
    Converted =>
        CountOccurrences(result, RenderedBlank) = ConvertedBlanks(element)

WitC5_BlanksAtThreePlaces ==
    /\ Converted
    /\ Len(element.children) = 3
    /\ element.children[1] = BlankB
    /\ element.children[2].name = "p"
    /\ element.children[3] = ItemsUl
    /\ CountOccurrences(result, RenderedBlank) = 3
    /\ CountBlanks(element) = 4

NoLongNewlineRun(s) ==
    ~\E i \in 1..(Len(s) - 2) : s[i] = NL /\ s[i + 1] = NL /\ s[i + 2] = NL

(* the child is handed to the recursive call of process_element *)
Recursed(c) == ~IsBlank(c) /\ c.name \notin {"br", "#text", "u"}

(* C7 as stated: in the text assembled from the children no block-level  *)
(* fragment is separated from its neighbours by more than two newlines   *)
CexC7_ExactlyOneBlankLine ==
    (Converted /\ Generic) => NoLongNewlineRun(md_text)

(* C7 as amended: a block-level child adds two newlines, its trimmed     *)
(* fragment and two newlines to the text (so at least one blank line on  *)
(* each side, and more next to another block child, a br or an empty     *)
(* fragment); an inline child adds its trimmed fragment and nothing else *)
ThmC7_BlockWrap ==
    [][(call = "process_element" /\ pc = "loop" /\ child_index' = child_index + 1) =>
          LET c == element.children[child_index']
              frag == Strip(ProcessElement(c, failing, prefix))
          IN  Recursed(c) =>
                /\ frag = <<>> \/ (~IsSpace(frag[1]) /\ ~IsSpace(frag[Len(frag)]))
                /\ IF c.name \in {"p", "div", "ul", "ol", "blockquote", "h1", "h2",
                                  "h3", "h4", "h5", "h6", "img"}
                   THEN md_text' = md_text \o <<NL, NL>> \o frag \o <<NL, NL>>
                   ELSE md_text' = md_text \o frag]_vars

WitC7_AdjacentBlocks ==
    /\ Converted
    /\ Len(element.children) = 2
    /\ element.children[1].name = "p"
    /\ element.children[2].name = "ul"
    /\ Occurs(md_text, <<"</u>", NL, NL, NL, NL, "-">>)

Unresolved(c) ==
    c.name = "img" /\ (c.src = None \/ c.src = <<>> \/ c.src \in failing)

Resolved(c) == ~Unresolved(c)

(* C8 as stated: an unresolved image gives the empty string and the      *)
(* enclosing conversion returns what it returns without the image        *)
CexC8_AsWithoutImage ==
    Converted =>
        /\ (element.name = "img" /\ Unresolved(element)) => result = <<>>
        /\ Generic =>
              result = ProcessElement(
                          [element EXCEPT !.children = SelectSeq(@, Resolved)],
                          failing, prefix)

(* what the children contribute when each unresolved image contributes  *)
(* four newlines and every other child what it contributes on its own   *)
RECURSIVE ExpectedChildren(_)
ExpectedChildren(cs) ==
    IF cs = <<>> THEN <<>>
    ELSE (IF Unresolved(Head(cs)) THEN <<NL, NL, NL, NL>>
          ELSE ElementChild(Head(cs), <<>>, failing, prefix))
         \o ExpectedChildren(Tail(cs))

(* C8 as amended: process_element on an unresolved image returns the    *)
(* empty string; as a child the image contributes the four newlines of  *)
(* its block wrapper and nothing else, and the other children are       *)
(* rendered as without it                                               *)
ThmC8_UnresolvedImage ==
    Converted =>
        /\ (element.name = "img" /\ Unresolved(element)) => result = <<>>
        /\ Generic => result = ExpectedChildren(element.children) \o <<NL, NL>>

WitC8_FailedDownloadBetweenChildren ==
    /\ Converted
    /\ failing = {ImgSrc}
    /\ element.children = <<Text(<<"x">>), Img, BlankB>>
    /\ result = <<"x", NL, NL, NL, NL>> \o RenderedBlank \o <<NL, NL>>

----------------------------------------------------------------------------
(* main as a state machine: the directory, the fetch, the container, one  *)
(* step per top-level element, the write                                  *)

MaxElements == 3

PAN == <<"p", "a", "n">>
PDFLINK == <<"p", "d", "f", "l", "i", "n", "k">>
IMG_MARGIN == <<"i", "m", "g", "_", "m", "a", "r", "g", "i", "n">>
MONDAI == <<"m", "o", "n", "d", "a", "i">>
SELECT == <<"s", "e", "l", "e", "c", "t">>
ANSBG == <<"a", "n", "s", "b", "g">>
BTMNAV == <<"b", "t", "m", "N", "a", "v">>

(* the three marker words looked for in an h3 heading *)
QuestionIndex == <<"kanji-mon", "kanji-dai", "kanji-ichi", "kanji-ran">>
Answer == <<"kanji-kai", "kanji-tou">>
Explanation == <<"kanji-kai", "kanji-setsu">>

(* the descendants of a node in document order *)
RECURSIVE Descendants(_)
Descendants(node) ==
    LET RECURSIVE Walk(_)
        Walk(cs) == IF cs = <<>> THEN <<>>
                    ELSE <<Head(cs)>> \o Descendants(Head(cs)) \o Walk(Tail(cs))
    IN  Walk(node.children)

Named(name, nodes) == SelectSeq(nodes, LAMBDA n : n.name = name)

(* the if/elif chain of lines 346-356 *)
PrefixChar(li) ==
    LET hits == {i \in 1..Len(KanaClasses) : HasClass(li, KanaClasses[i][1])}
    IN  IF hits = {} THEN <<>>
        ELSE <<KanaClasses[CHOOSE i \in hits : \A j \in hits : i <= j][2]>>

(* lines 345-362: the line of one option of an answer group *)
OptionLine(li) ==
    LET text == Strip(GetText(li))
    IN  IF PrefixChar(li) # <<>>
        THEN PrefixChar(li) \o <<"kana-comma">> \o text \o <<NL, NL>>
        ELSE text \o <<NL, NL>>

RECURSIVE OptionLines(_)
OptionLines(lis) ==
    IF lis = <<>> THEN <<>>
    ELSE OptionLine(Head(lis)) \o OptionLines(Tail(lis))

(* lines 325-328: the stripped strings of the direct text children *)
RECURSIVE HeaderText(_)
HeaderText(cs) ==
    IF cs = <<>> THEN <<>>
    ELSE (IF IsText(Head(cs)) THEN Strip(Head(cs).string) ELSE <<>>)
         \o HeaderText(Tail(cs))

(* lines 311-363: what an answer group adds *)
AnswerGroupText(e) ==
    LET uls == Named("ul", Descendants(e))
    IN  <<"-", "-", "-", NL, NL>> \o HeaderText(e.children) \o <<NL, NL>>
        \o (IF uls = <<>> THEN <<>>
            ELSE OptionLines(Named("li", Descendants(uls[1]))))

NavigationClass(e) ==
    \E i \in 1..Len(e.class) : e.class[i] \in {PAN, PDFLINK, IMG_MARGIN}

(* mutant: the question-index heading is skipped like an answer heading *)
MainElement_StopSkipped(e, content, fails, pfx) ==
    IF IsText(e) \/ e.name = "h2"
    THEN [stop |-> FALSE, content |-> content]
    ELSE IF e.name = "h3"
    THEN LET text == Strip(GetText(e))
         IN  IF \/ Occurs(text, QuestionIndex)
                \/ Occurs(text, Answer) \/ Occurs(text, Explanation)
             THEN [stop |-> FALSE, content |-> content]
             ELSE [stop |-> FALSE,
                   content |-> content \o <<"#", "#", "#", " ">> \o text
                                       \o <<NL, NL>>]
    ELSE IF HasClass(e, MONDAI)
    THEN [stop |-> FALSE, content |-> content \o ProcessElement(e, fails, pfx)]
    ELSE IF HasClass(e, SELECT) /\ HasClass(e, ANSBG)
    THEN [stop |-> FALSE, content |-> content \o AnswerGroupText(e)]
    ELSE IF e.name = "div" /\ HasClass(e, IMG_MARGIN)
            /\ ~HasDescendant(e, "ul", BTMNAV)
    THEN [stop |-> FALSE, content |-> content \o ProcessElement(e, fails, pfx)]
    ELSE [stop |-> FALSE, content |-> content]

(* one pass of "for element in main_container.children", lines 275-371: *)
(* whether the loop is left and markdown_content after the element      *)
MainElement(e, content, fails, pfx) ==
    IF IsText(e)
    THEN [stop |-> FALSE, content |-> content]
    ELSE IF e.name = "h2"
    THEN [stop |-> FALSE, content |-> content]
    ELSE IF e.class # <<>> /\ NavigationClass(e) /\ HasDescendant(e, "ul", BTMNAV)
    THEN [stop |-> FALSE, content |-> content]
    ELSE IF e.name = "h3"
    THEN LET text == Strip(GetText(e))
         IN  IF Occurs(text, QuestionIndex)
             THEN [stop |-> TRUE, content |-> content]
             ELSE IF Occurs(text, Answer) \/ Occurs(text, Explanation)
             THEN [stop |-> FALSE, content |-> content]
             ELSE [stop |-> FALSE,
                   content |-> content \o <<"#", "#", "#", " ">> \o text
                                       \o <<NL, NL>>]
    ELSE IF e.class # <<>> /\ HasClass(e, MONDAI)
    THEN [stop |-> FALSE, content |-> content \o ProcessElement(e, fails, pfx)]
    ELSE IF e.class # <<>> /\ HasClass(e, SELECT) /\ HasClass(e, ANSBG)
    THEN [stop |-> FALSE, content |-> content \o AnswerGroupText(e)]
    ELSE IF e.name = "div" /\ HasClass(e, IMG_MARGIN)
    THEN IF HasDescendant(e, "ul", BTMNAV)
         THEN [stop |-> FALSE, content |-> content]
         ELSE [stop |-> FALSE,
               content |-> content \o ProcessElement(e, fails, pfx)]
    ELSE [stop |-> FALSE, content |-> content]

(* the top-level elements the container is built from *)
Heading(text) == Elem("h3", <<>>, <<Text(text)>>)

PageTitle == Elem("h2", <<>>, <<Text(<<"T">>)>>)

QuestionHeading == Heading(<<" ", "Q", "1", NL>>)

StopHeading == Heading(<<"x">> \o QuestionIndex)

AnswerHeading == Heading(Answer \o <<"x">>)

ExplanationHeading == Heading(Explanation)

Navigation ==
    Elem("div", <<IMG_MARGIN>>,
         << [Elem("ul", <<>>, <<Li(<<>>, None, <<Text(<<"n">>)>>)>>)
                EXCEPT !.id = BTMNAV] >>)

Breadcrumb == Elem("div", <<PAN>>, <<Text(<<"n">>)>>)

ImageSection == Elem("div", <<IMG_MARGIN>>, <<Img>>)

Mondai == Elem("div", <<MONDAI>>, <<Text(<<"T">>), BlankB>>)

AnswerGroup ==
    Elem("div", <<SELECT, ANSBG>>,
         << Text(<<"a", " ">>),
            Elem("ul", <<>>,
                 << Li(<<LIA>>, None, <<Text(<<"A">>), BlankB>>),
                    Li(<<>>, None, <<Text(<<"B">>)>>),
                    Li(<<OPT, <<"l", "i", "i">>>>, None, <<Text(<<"C">>)>>) >>) >>)

TopLevelKinds ==
    { Text(<<NL>>), PageTitle, QuestionHeading, StopHeading, AnswerHeading,
      ExplanationHeading, Navigation, Breadcrumb, ImageSection, Mondai,
      AnswerGroup }

(* soup.select_one('div.main.kako'): found with its children, or absent *)
Container(cs) == [found |-> TRUE, children |-> cs]

NoContainer == [found |-> FALSE, children |-> <<>>]

Containers == {Container(cs) : cs \in SeqsUpTo(TopLevelKinds, MaxElements)}

(* what the output file holds before the run *)
OldFile == <<"o", "l", "d">>

InitMain ==
    /\ call = "main"
    /\ pc = "call"
    /\ \/ /\ fetch = "ok" /\ dir_state = "exists"
          /\ container \in Containers
          /\ failing = {} /\ prefix = <<"p">>
       \/ /\ fetch \in {"ok", "transport_error", "http_error"}
          /\ dir_state \in {"exists", "absent"}
          /\ container \in {NoContainer, Container(<<Mondai>>),
                           Container(<<ImageSection, StopHeading>>)}
          /\ failing \in {{}, {ImgSrc}}
          /\ prefix \in {<<>>, <<"p">>}
    /\ file \in {None, OldFile}
    /\ elem_index = 0 /\ markdown_content = <<>> /\ printed = <<>>
    /\ result = None
    /\ ListVarsIdle
    /\ element = Idle /\ child_index = 0 /\ md_text = <<>>

MainUnchanged ==
    UNCHANGED <<call, list_element, indent_level, li_index, current_number,
                md_lines, element, failing, prefix, child_index, md_text,
                result, fetch, container>>

(* lines 239-240, outside the try: the directory exists, is created, or *)
(* os.makedirs raises and the exception leaves main                     *)
MainMakeDirs ==
    /\ call = "main" /\ pc = "call"
    /\ \/ dir_state = "exists" /\ pc' = "fetch" /\ UNCHANGED dir_state
       \/ dir_state = "absent" /\ pc' = "fetch" /\ dir_state' = "exists"
       \/ dir_state = "absent" /\ pc' = "crashed" /\ UNCHANGED dir_state
    /\ UNCHANGED <<elem_index, markdown_content, file, printed>>
    /\ MainUnchanged

(* lines 243-246 and, when requests.get or raise_for_status raises, *)
(* lines 378-379                                                    *)
MainFetch ==
    /\ call = "main" /\ pc = "fetch"
    /\ IF fetch = "ok"
       THEN pc' = "select" /\ UNCHANGED printed
       ELSE pc' = "done" /\ printed' = Append(printed, "Error")
    /\ UNCHANGED <<dir_state, elem_index, markdown_content, file>>
    /\ MainUnchanged

(* mutant: the message is printed but main does not return *)
MainSelect_NoReturn ==
    /\ call = "main" /\ pc = "select"
    /\ IF ~container.found
       THEN pc' = "write" /\ printed' = Append(printed, "NoContainer")
       ELSE pc' = "loop" /\ UNCHANGED printed
    /\ markdown_content' = <<>>
    /\ elem_index' = 0
    /\ UNCHANGED <<dir_state, file>>
    /\ MainUnchanged

(* lines 249-270 *)
MainSelect ==
    /\ call = "main" /\ pc = "select"
    /\ IF ~container.found
       THEN /\ pc' = "done"
            /\ printed' = Append(printed, "NoContainer")
            /\ UNCHANGED <<markdown_content, elem_index>>
       ELSE /\ pc' = "loop"
            /\ markdown_content' = <<>>
            /\ elem_index' = 0
            /\ UNCHANGED printed
    /\ UNCHANGED <<dir_state, file>>
    /\ MainUnchanged

(* one iteration of the loop of line 275, or its end *)
MainStep ==
    /\ call = "main" /\ pc = "loop"
    /\ IF elem_index < Len(container.children)
       THEN LET r == MainElement(container.children[elem_index + 1],
                                 markdown_content,
                                 failing, prefix)
            IN  /\ markdown_content' = r.content
                /\ IF r.stop
                   THEN pc' = "write" /\ UNCHANGED elem_index
                   ELSE pc' = "loop" /\ elem_index' = elem_index + 1
       ELSE pc' = "write" /\ UNCHANGED <<markdown_content, elem_index>>
    /\ UNCHANGED <<dir_state, file, printed>>
    /\ MainUnchanged

(* lines 373-376, and lines 378-379 when open or write raises: open     *)
(* fails and leaves the file alone, or the file is opened (truncated)   *)
(* and the write fails                                                  *)
MainWrite ==
    /\ call = "main" /\ pc = "write"
    /\ \/ file' = markdown_content /\ printed' = Append(printed, "Saved")
       \/ file' = file /\ printed' = Append(printed, "Error")
       \/ file' = <<>> /\ printed' = Append(printed, "Error")
    /\ pc' = "done"
    /\ UNCHANGED <<dir_state, elem_index, markdown_content>>
    /\ MainUnchanged

NextMain == MainMakeDirs \/ MainFetch \/ MainSelect \/ MainStep \/ MainWrite

SpecMain == InitMain /\ [][NextMain]_vars

----------------------------------------------------------------------------
(* Properties of main, checked under SpecMain *)

PageUnusable == fetch # "ok" \/ ~container.found

(* C9: the output file is written only in the write step of a run whose *)
(* fetch succeeded and whose container was found; a run whose fetch     *)
(* failed ends with the error message, a run without the container ends *)
(* with the not-found message, and neither changes the file             *)
ThmC9_NoFileWithoutPage ==
    [][call = "main" =>
          /\ file' # file =>
                (pc = "write" /\ fetch = "ok" /\ container.found)
          /\ (PageUnusable /\ pc' = "done") =>
                /\ file' = file
                /\ printed' = IF fetch # "ok" THEN <<"Error">>
                              ELSE <<"NoContainer">>]_vars

WitC9_ContainerAbsentFileKept ==
    /\ call = "main" /\ pc = "done"
    /\ fetch = "ok" /\ container = NoContainer
    /\ file = OldFile
    /\ printed = <<"NoContainer">>

IsStopHeading(e) ==
    e.name = "h3" /\ Occurs(Strip(GetText(e)), QuestionIndex)

(* position of the first question-index heading, 0 when there is none *)
StopIndex ==
    IF \E i \in 1..Len(container.children) : IsStopHeading(container.children[i])
    THEN CHOOSE i \in 1..Len(container.children) :
            /\ IsStopHeading(container.children[i])
            /\ \A j \in 1..(i - 1) : ~IsStopHeading(container.children[j])
    ELSE 0

(* what the elements contribute, one after the other, when none stops *)
RECURSIVE Accumulated(_, _)
Accumulated(es, content) ==
    IF es = <<>> THEN content
    ELSE Accumulated(Tail(es),
                     MainElement(Head(es), content, failing, prefix).content)

Saved == printed # <<>> /\ printed[Len(printed)] = "Saved"

(* C10: main visits the top-level elements in document order and never  *)
(* goes past an h3 heading whose text contains the question-index       *)
(* marker: once the loop is left, markdown_content is what the elements *)
(* before the heading gave, nothing at or after the heading has added   *)
(* to it, and a successful write puts exactly that in the file          *)
ThmC10_StopAtQuestionIndex ==
    (call = "main" /\ fetch = "ok" /\ container.found /\ StopIndex > 0) =>
        /\ elem_index < StopIndex
        /\ pc \in {"write", "done"} =>
              /\ elem_index = StopIndex - 1
              /\ markdown_content =
                    Accumulated(SubSeq(container.children, 1, StopIndex - 1),
                                <<>>)
        /\ (pc = "done" /\ Saved) => file = markdown_content

WitC10_SectionsAfterStopHeading ==
    /\ call = "main" /\ pc = "done" /\ Saved
    /\ container = Container(<<Mondai, StopHeading, AnswerGroup>>)
    /\ file = <<"T">> \o RenderedBlank \o <<NL, NL>>

(* C11 as stated: no failure of a top-level operation of main leaves    *)
(* main as an unhandled exception; a run that fails ends normally with  *)
(* a printed message                                                    *)
CexC11_NoUnhandledException ==
    call = "main" =>
        /\ pc # "crashed"
        /\ (pc = "done" /\ ~Saved) => printed # <<>>

IsAnswerGroup(e) ==
    ~IsText(e) /\ e.name \notin {"h2", "h3"}
    /\ ~(NavigationClass(e) /\ HasDescendant(e, "ul", BTMNAV))
    /\ ~HasClass(e, MONDAI)
    /\ HasClass(e, SELECT) /\ HasClass(e, ANSBG)

(* the elements the loop has dealt with so far *)
Visited == SubSeq(container.children, 1, elem_index)

(* the Markdown of the elements when every answer group is handed to   *)
(* process_element behind a horizontal rule                            *)
RECURSIVE Routed(_, _)
Routed(es, content) ==
    IF es = <<>> THEN content
    ELSE Routed(Tail(es),
                IF IsAnswerGroup(Head(es))
                THEN content \o <<"-", "-", "-", NL, NL>>
                             \o ProcessElement(Head(es), failing, prefix)
                ELSE MainElement(Head(es), content, failing, prefix).content)

(* C12 as stated: an answer group is rendered by process_element, like *)
(* the question body and an image section, behind the rule "---"       *)
CexC12_AnswerGroupRouted ==
    (call = "main" /\ pc = "loop") =>
        markdown_content = Routed(Visited, <<>>)

EndsWithBlankLine(s) ==
    Len(s) >= 2 /\ s[Len(s) - 1] = NL /\ s[Len(s)] = NL

(* C14 as stated: whatever the element (a list, an image with or       *)
(* without a resolvable source, a generic element with or without      *)
(* children), the string process_element returns ends with two         *)
(* newline characters                                                  *)
CexC14_AlwaysTrailingBlankLine ==
    Converted => EndsWithBlankLine(result)

(* C14 as amended: the string process_element returns ends with two    *)
(* newline characters for a list, for an image whose source resolves   *)
(* and for every generic element, with or without children; for an     *)
(* image whose source is unresolved it is the empty string             *)
ThmC14_TrailingBlankLineUnlessNoImage ==
    Converted =>
        IF element.name = "img" /\ Unresolved(element)
        THEN result = <<>>
        ELSE EndsWithBlankLine(result)

WitC14_ChildlessElement ==
    /\ Converted
    /\ element.name = "div" /\ element.children = <<>>
    /\ result = <<NL, NL>>

====
